---- MODULE Spec2Model ----
(***************************************************************************)
(* Model of the airline simulation workflow (MiJirasek/airlines):          *)
(* SimulationWorkflow.process_semester_plans and the three agents it       *)
(* drives (CompanyAgent, MarketAgent, EvaluationAgent) over the Firestore  *)
(* collections 'airlines', 'simulation/market_state' and 'feedback'.       *)
(*                                                                         *)
(* Conventions.                                                            *)
(*  - Python's None / a missing document / a missing dict key is the empty *)
(*    sequence <<>>; a present value v is <<v>>.                            *)
(*  - Money is an integer number of currency units (the floats of the      *)
(*    source hold integral amounts in every modelled input).                *)
(*  - market_share is held in 1/10000 (ShareOne is 1.0); competition       *)
(*    intensity in 1/100; average reputation in 1/100 of a point.          *)
(*  - Fields that never influence control flow or another field (name,     *)
(*    description, semester, timestamps, feedback_text) are left out.      *)
(*  - The body of plans[i] is drawn when the company loop reads it: the    *)
(*    loop never looks ahead, so this is the same set of behaviours as     *)
(*    drawing the whole list at the call.                                   *)
(***************************************************************************)
EXTENDS Integers, Sequences, FiniteSets, TLC

VARIABLES
    airlines,          \* collection 'airlines': team id -> <<>> | <<AirlineState>>
    market,            \* document simulation/market_state: <<>> | <<MarketState>>
    feedback,          \* collection 'feedback' (append only): sequence of records
    pc,                \* position of process_semester_plans
    batch,             \* team ids of the plans argument, in list order
    i,                 \* index of the loop the run is in
    results,           \* the results dict: team id -> <<>> | <<entry>>
    order,             \* insertion order of the keys of results
    company_responses, \* the list passed to the market stage
    market_results,    \* <<>> (None) | <<result of the market stage>>
    mk,                \* locals of MarketAgent.evaluate_market_performance
    summary,           \* results["_instructor_summary"]: <<>> | <<summary>>
    runs,              \* number of runs started so far
    faults,            \* number of store failures and stray exceptions injected so far
    obs                \* observations of the current run (history, not program state)

vars == <<airlines, market, feedback, pc, batch, i, results, order,
          company_responses, market_results, mk, summary, runs, faults, obs>>

----------------------------------------------------------------------------
(* Bounds of the exploration *)

MaxPlans == 2
MaxActions == 3
MaxRuns == 1
MaxFaults == 1

(* Program constants *)

MAX_SEMESTER_BUDGET == 1000000
REPUTATION_CAP == 100
DEFAULT_REPUTATION_IMPACT == 5
DEFAULT_AIRCRAFT_COUNT == 1
INITIAL_REPUTATION == 50

None == <<>>
Some(v) == <<v>>
IsNone(o) == o = <<>>
Val(o) == o[1]

(* Teams: t1 and t2 are registered (they have an 'airlines' document),     *)
(* t0 never registered.                                                     *)
Registered == {"t1", "t2"}
TeamIds == {"t0"} \cup Registered
TeamOrder == <<"t0", "t1", "t2">>

----------------------------------------------------------------------------
(* Inputs *)

Act(type, cost, param) == [action_type |-> type, cost |-> cost, parameters |-> param]

(* parameters is the value of the one key _apply_action_to_state reads   *)
(* for the type, <<>> when the key is missing.                             *)
Purchase   == Act("purchase_aircraft",  400000, None)
Marketing  == Act("marketing_campaign", 700000, Some(60))
Smear      == Act("marketing_campaign", 100000, Some(-60))

RECURSIVE SeqsUpTo(_, _)
SeqsUpTo(S, n) ==
    IF n = 0 THEN {<<>>}
    ELSE LET shorter == SeqsUpTo(S, n - 1)
         IN  shorter \cup {Append(s, x) : s \in {t \in shorter : Len(t) = n - 1}, x \in S}

(* Plans submitted to the workflow *)
PlanBodies ==
    [actions : {<<>>, <<Purchase>>, <<Purchase, Marketing>>, <<Marketing, Purchase>>,
                <<Purchase, Smear>>},
     total_budget : {1000000}]

(* Plans and team states on which process_plan is explored by itself *)
ActionCatalog ==
    { Act("purchase_aircraft",   40000, None),
      Act("add_route",           30000, Some("PRG-LHR")),
      Act("add_route",           50000, Some("PRG-CDG")),
      Act("marketing_campaign",  50000, Some(60)),
      Act("maintenance_upgrade", 30000, None),
      Act("staff_training",     -10000, None) }

CatalogPlans ==
    [actions : SeqsUpTo(ActionCatalog, MaxActions), total_budget : {0, 100000}]

CatalogStates ==
    [team_id : {"t1"}, cash : {0, 70000, 100000}, aircraft_count : {0, 1, 2},
     routes : {<<>>, <<"PRG-LHR">>}, market_share : {2500}, reputation : {50, 98}]

Plan(team, body) ==
    [team_id |-> team, actions |-> body.actions, total_budget |-> body.total_budget]

Batches == SeqsUpTo(TeamIds, MaxPlans)

(* Outcomes of one litellm.completion call *)
LlmOutcomes == {"ok", "raise", "hang"}

----------------------------------------------------------------------------
(* models.py *)

InitialAirline(team) ==
    [team_id |-> team, cash |-> MAX_SEMESTER_BUDGET, aircraft_count |-> 0,
     routes |-> <<>>, market_share |-> 0, reputation |-> INITIAL_REPUTATION]

RECURSIVE SumCost(_)
SumCost(actions) ==
    IF actions = <<>> THEN 0 ELSE actions[1].cost + SumCost(Tail(actions))

Range(s) == {s[k] : k \in DOMAIN s}

----------------------------------------------------------------------------
(* database.py: reads return None when the document is missing or the     *)
(* read raises; writes report failure by a return value nobody looks at.  *)

GetAirlineState(team, readOk) ==
    IF readOk THEN airlines[team] ELSE None

GetMarketState(readOk) ==
    IF readOk THEN market ELSE None

RECURSIVE DocsInOrder(_)
DocsInOrder(k) ==
    IF k > Len(TeamOrder) THEN <<>>
    ELSE airlines[TeamOrder[k]] \o DocsInOrder(k + 1)

GetAllAirlineStates(readOk) ==
    IF readOk THEN DocsInOrder(1) ELSE <<>>

UpdateAirlineState_EveryRecord(store, st, writeOk) ==
    IF writeOk
    THEN [t \in DOMAIN store |-> IF IsNone(store[t]) /\ t # st.team_id THEN None
                                 ELSE Some([st EXCEPT !.team_id = t])]
    ELSE store

UpdateAirlineState(store, st, writeOk) ==
    IF writeOk THEN [store EXCEPT ![st.team_id] = Some(st)] ELSE store

UpdateMarketState(old, ms, writeOk) ==
    IF writeOk THEN Some(ms) ELSE old

----------------------------------------------------------------------------
(* agents/company_agent.py *)

(* _validator_node: advisory messages only *)
ValidatorNode_SilentFailure(plan, airline_state, llm) ==
    LET total_cost == SumCost(plan.actions)
        intensive  == {k \in DOMAIN plan.actions :
                          plan.actions[k].action_type \in {"add_route", "increase_frequency"}}
    IN  (IF total_cost > airline_state.cash
            THEN <<[msg |-> "over_budget", amount |-> total_cost - airline_state.cash]>>
            ELSE <<>>)
        \o (IF Cardinality(intensive) > airline_state.aircraft_count
            THEN <<[msg |-> "insufficient_aircraft", amount |-> Cardinality(intensive)]>>
            ELSE <<>>)
        \o (IF llm = "ok"
            THEN <<[msg |-> "ai_assessment", amount |-> 0]>>
            ELSE <<>>)

ValidatorNode(plan, airline_state, llm) ==
    LET total_cost == SumCost(plan.actions)
        intensive  == {k \in DOMAIN plan.actions :
                          plan.actions[k].action_type \in {"add_route", "increase_frequency"}}
    IN  (IF total_cost > airline_state.cash
            THEN <<[msg |-> "over_budget", amount |-> total_cost - airline_state.cash]>>
            ELSE <<>>)
        \o (IF Cardinality(intensive) > airline_state.aircraft_count
            THEN <<[msg |-> "insufficient_aircraft", amount |-> Cardinality(intensive)]>>
            ELSE <<>>)
        \o (IF llm = "ok"
            THEN <<[msg |-> "ai_assessment", amount |-> 0]>>
            ELSE <<[msg |-> "ai_validation_failed", amount |-> 0]>>)

(* sorted(plan.actions, key=cost): stable, ascending *)
RECURSIVE InsertByCost_Unstable(_, _)
InsertByCost_Unstable(sorted, a) ==
    IF sorted = <<>> THEN <<a>>
    ELSE LET last == sorted[Len(sorted)]
         IN  IF last.cost < a.cost
             THEN Append(sorted, a)
             ELSE Append(InsertByCost_Unstable(SubSeq(sorted, 1, Len(sorted) - 1), a), last)

RECURSIVE InsertByCost(_, _)
InsertByCost(sorted, a) ==
    IF sorted = <<>> THEN <<a>>
    ELSE LET last == sorted[Len(sorted)]
         IN  IF last.cost <= a.cost
             THEN Append(sorted, a)
             ELSE Append(InsertByCost(SubSeq(sorted, 1, Len(sorted) - 1), a), last)

SortByCost_SubmissionOrder(actions) == actions

RECURSIVE SortByCost(_)
SortByCost(actions) ==
    IF actions = <<>> THEN <<>>
    ELSE InsertByCost(SortByCost(SubSeq(actions, 1, Len(actions) - 1)),
                      actions[Len(actions)])

IsActionFeasible(action, airline_state) ==
    CASE action.action_type = "purchase_aircraft"   -> TRUE
      [] action.action_type = "add_route"           ->
             airline_state.aircraft_count > Len(airline_state.routes)
      [] action.action_type = "marketing_campaign"  -> TRUE
      [] action.action_type = "staff_training"      -> TRUE
      [] action.action_type = "maintenance_upgrade" -> airline_state.aircraft_count > 0
      [] OTHER -> TRUE

WithinBudget_NoAccumulator(cash_used, cost, available_cash) ==
    cost <= available_cash

WithinBudget(cash_used, cost, available_cash) ==
    cash_used + cost <= available_cash

(* _implementer_node: the loop over the sorted actions *)
RECURSIVE ImplementLoop_DropsInfeasible(_, _, _, _, _, _)
ImplementLoop_DropsInfeasible(sorted, k, airline_state, cash_used, approved, rejected) ==
    IF k > Len(sorted)
    THEN [approved_actions |-> approved, rejected_actions |-> rejected,
          cash_used |-> cash_used]
    ELSE LET action == sorted[k]
         IN  IF WithinBudget(cash_used, action.cost, airline_state.cash)
             THEN IF IsActionFeasible(action, airline_state)
                  THEN ImplementLoop_DropsInfeasible(sorted, k + 1, airline_state,
                                                     cash_used + action.cost,
                                                     Append(approved, action), rejected)
                  ELSE ImplementLoop_DropsInfeasible(sorted, k + 1, airline_state,
                                                     cash_used, approved, rejected)
             ELSE ImplementLoop_DropsInfeasible(sorted, k + 1, airline_state, cash_used,
                                                approved, Append(rejected, action))

RECURSIVE ImplementLoop(_, _, _, _, _, _)
ImplementLoop(sorted, k, airline_state, cash_used, approved, rejected) ==
    IF k > Len(sorted)
    THEN [approved_actions |-> approved, rejected_actions |-> rejected,
          cash_used |-> cash_used]
    ELSE LET action == sorted[k]
         IN  IF WithinBudget(cash_used, action.cost, airline_state.cash)
                /\ IsActionFeasible(action, airline_state)
             THEN ImplementLoop(sorted, k + 1, airline_state, cash_used + action.cost,
                                Append(approved, action), rejected)
             ELSE ImplementLoop(sorted, k + 1, airline_state, cash_used,
                                approved, Append(rejected, action))

ImplementerNode(plan, airline_state) ==
    ImplementLoop(SortByCost(plan.actions), 1, airline_state, 0, <<>>, <<>>)

(* route and route not in airline_state.routes *)
ShouldAppendRoute_NoMembership(parameters, routes) ==
    ~IsNone(parameters) /\ Val(parameters) # ""

ShouldAppendRoute(parameters, routes) ==
    /\ ~IsNone(parameters) /\ Val(parameters) # ""
    /\ Val(parameters) \notin Range(routes)

ApplyActionToState(action, st) ==
    CASE action.action_type = "purchase_aircraft" ->
             LET count == IF IsNone(action.parameters) THEN DEFAULT_AIRCRAFT_COUNT
                          ELSE Val(action.parameters)
             IN  [st EXCEPT !.aircraft_count = @ + count]
      [] action.action_type = "add_route" ->
             IF ShouldAppendRoute(action.parameters, st.routes)
             THEN [st EXCEPT !.routes = Append(@, Val(action.parameters))]
             ELSE st
      [] action.action_type = "marketing_campaign" ->
             LET boost == IF IsNone(action.parameters) THEN DEFAULT_REPUTATION_IMPACT
                          ELSE Val(action.parameters)
                 sum   == st.reputation + boost
             IN  [st EXCEPT !.reputation = IF sum < REPUTATION_CAP THEN sum
                                           ELSE REPUTATION_CAP]
      [] OTHER -> st

(* for action in result["approved_actions"]: _apply_action_to_state(...) *)
RECURSIVE ApplyAll_Twice(_, _)
ApplyAll_Twice(actions, st) ==
    IF actions = <<>> THEN st
    ELSE ApplyAll_Twice(Tail(actions),
                        ApplyActionToState(actions[1], ApplyActionToState(actions[1], st)))

RECURSIVE ApplyAll(_, _)
ApplyAll(actions, st) ==
    IF actions = <<>> THEN st
    ELSE ApplyAll(Tail(actions), ApplyActionToState(actions[1], st))

DeductCash_WholePlan(st, plan, cash_used) ==
    [st EXCEPT !.cash = @ - SumCost(plan.actions)]

DeductCash(st, plan, cash_used) ==
    [st EXCEPT !.cash = @ - cash_used]

(* process_plan, from the graph's result on: the state to persist and the *)
(* AgentResponse                                                            *)
UpdatedAirline(plan, airline_state, result) ==
    ApplyAll(result.approved_actions, DeductCash(airline_state, plan, result.cash_used))

AgentResponse(result, messages) ==
    [approved_actions |-> result.approved_actions,
     rejected_actions |-> result.rejected_actions,
     cash_used        |-> result.cash_used,
     reasoning        |-> messages]

NotFoundError(team) == <<"Airline state not found for team", team>>

(* process_plan(plan, team_id) on the store `store`; readOk / writeOk say *)
(* whether the store's read and write go through, llm is the outcome of   *)
(* the validator's completion call.  kind is "raise" (ValueError), "hang" *)
(* (the completion call never returns) or "ok".                            *)
ProcessPlan(store, plan, team_id, readOk, writeOk, llm) ==
    LET found == IF readOk THEN store[team_id] ELSE None
    IN  IF IsNone(found)
        THEN [kind |-> "raise", store |-> store, error |-> NotFoundError(team_id),
              response |-> None, before |-> None]
        ELSE IF llm = "hang"
        THEN [kind |-> "hang", store |-> store, error |-> None,
              response |-> None, before |-> found]
        ELSE LET airline_state == Val(found)
                 messages == ValidatorNode(plan, airline_state, llm)
                 result   == ImplementerNode(plan, airline_state)
             IN  [kind |-> "ok",
                  store |-> UpdateAirlineState(store,
                                UpdatedAirline(plan, airline_state, result), writeOk),
                  error |-> None,
                  response |-> Some(AgentResponse(result, messages)),
                  before |-> found]

----------------------------------------------------------------------------
(* agents/market_agent.py *)

ShareOne == 10000

DefaultMarket ==
    [total_passengers |-> 1000000, competition_level |-> 50,
     economic_conditions |-> "stable", events |-> <<>>]

Min(a, b) == IF a <= b THEN a ELSE b
Max(a, b) == IF a >= b THEN a ELSE b

RECURSIVE SumAircraft(_)
SumAircraft(sts) ==
    IF sts = <<>> THEN 0 ELSE sts[1].aircraft_count + SumAircraft(Tail(sts))

RECURSIVE SumReputation(_)
SumReputation(sts) ==
    IF sts = <<>> THEN 0 ELSE sts[1].reputation + SumReputation(Tail(sts))

(* sum(share ** 2 for share in market_shares) *)
RECURSIVE SumSquaredShares_NotSquared(_)
SumSquaredShares_NotSquared(sts) ==
    IF sts = <<>> THEN 0
    ELSE sts[1].market_share + SumSquaredShares_NotSquared(Tail(sts))

RECURSIVE SumSquaredShares(_)
SumSquaredShares(sts) ==
    IF sts = <<>> THEN 0
    ELSE (sts[1].market_share * sts[1].market_share) + SumSquaredShares(Tail(sts))

AllRoutes(sts) == UNION {Range(sts[k].routes) : k \in DOMAIN sts}

(* _analyze_market_competition *)
AnalyzeMarketCompetition_NoEmptyCase(sts) ==
    [competition_intensity |-> Min(100, (SumAircraft(sts) * 100) \div 20),
     market_concentration  |-> SumSquaredShares(sts) \div ShareOne,
     total_capacity        |-> SumAircraft(sts),
     total_routes          |-> Cardinality(AllRoutes(sts)),
     average_reputation    |-> IF sts = <<>> THEN 5000
                               ELSE (SumReputation(sts) * 100) \div Len(sts)]

AnalyzeMarketCompetition(sts) ==
    IF sts = <<>>
    THEN [competition_intensity |-> 10, market_concentration |-> 0,
          total_capacity |-> 0, total_routes |-> 0, average_reputation |-> 5000]
    ELSE [competition_intensity |-> Min(100, (SumAircraft(sts) * 100) \div 20),
          market_concentration  |-> SumSquaredShares(sts) \div ShareOne,
          total_capacity        |-> SumAircraft(sts),
          total_routes          |-> Cardinality(AllRoutes(sts)),
          average_reputation    |-> (SumReputation(sts) * 100) \div Len(sts)]

(* _generate_market_events: per category 0 = not triggered, k = catalog   *)
(* entry k.  An event is <<category, k>>.                                  *)
EVENTS_PER_CATEGORY == 5

GenerateMarketEvents(e, c, o) ==
    (IF e > 0 THEN <<<<"economic", e>>>> ELSE <<>>)
    \o (IF c > 0 THEN <<<<"competition", c>>>> ELSE <<>>)
    \o (IF o > 0 THEN <<<<"operational", o>>>> ELSE <<>>)

(* Number of negative / positive keywords that occur in the lower-cased   *)
(* text of each catalog entry (market_agent.py lines 94-122, 236-237).    *)
NegativeHits(ev) ==
    CASE ev = <<"economic", 3>>    -> 1   \* "recession"
      [] ev = <<"economic", 5>>    -> 1   \* "tax" in "taxes"
      [] ev = <<"operational", 1>> -> 1   \* "strike" in "strikes"
      [] ev = <<"operational", 2>> -> 1   \* "disruption" in "disruptions"
      [] OTHER -> 0

PositiveHits(ev) ==
    CASE ev = <<"economic", 2>>    -> 1   \* "boom"
      [] ev = <<"operational", 5>> -> 2   \* "upgrade", "efficiency"
      [] OTHER -> 0

RECURSIVE SumHits(_, _)
SumHits(events, positive) ==
    IF events = <<>> THEN 0
    ELSE (IF positive THEN PositiveHits(events[1]) ELSE NegativeHits(events[1]))
         + SumHits(Tail(events), positive)

(* _determine_economic_conditions *)
DetermineEconomicConditions(events) ==
    LET negative_count == SumHits(events, FALSE)
        positive_count == SumHits(events, TRUE)
    IN  IF positive_count > negative_count THEN "growing"
        ELSE IF negative_count > positive_count THEN "declining"
        ELSE "stable"

(* _ai_performance_evaluation.  A response is [kind, value]: "raise" (the *)
(* call raises), "change" (the text holds "reputation_change": value) or  *)
(* "nomatch" (no such integer in the text).                                *)
AiPerformanceEvaluation_Unclamped(resp) ==
    IF resp.kind = "change" THEN resp.value ELSE 0

AiPerformanceEvaluation(resp) ==
    IF resp.kind = "change" THEN Max(-5, Min(5, resp.value)) ELSE 0

(* _calculate_airline_performance; jitter is random.uniform(-0.1, 0.1) in *)
(* percent.                                                                 *)
CalculateAirlinePerformance_FreshRecord(airline, market_analysis, jitter, resp) ==
    LET total_capacity == market_analysis.total_capacity
        share == IF total_capacity > 0
                 THEN Min(ShareOne,
                          (airline.aircraft_count * airline.reputation
                             * (100 + jitter) * (ShareOne \div 100))
                          \div (total_capacity * 100))
                 ELSE airline.market_share
        reputation == Max(0, Min(100, airline.reputation + AiPerformanceEvaluation(resp)))
    IN  [InitialAirline(airline.team_id) EXCEPT !.market_share = share,
                                                !.reputation = reputation]

CalculateAirlinePerformance(airline, market_analysis, jitter, resp) ==
    LET total_capacity == market_analysis.total_capacity
        share == IF total_capacity > 0
                 THEN Min(ShareOne,
                          (airline.aircraft_count * airline.reputation
                             * (100 + jitter) * (ShareOne \div 100))
                          \div (total_capacity * 100))
                 ELSE airline.market_share
        reputation == Max(0, Min(100, airline.reputation + AiPerformanceEvaluation(resp)))
    IN  [airline EXCEPT !.market_share = share, !.reputation = reputation]

(* _calculate_total_demand; jitter is random.uniform(-0.05, 0.05) in     *)
(* percent.  The three factors are applied one after the other, each      *)
(* truncated, to stay within 32-bit integers.                              *)
CalculateTotalDemand_Unclamped(market_analysis, current_market, jitter) ==
    LET base_demand == current_market.total_passengers
        d1 == (base_demand * (1000 + 2 * market_analysis.competition_intensity)) \div 1000
        d2 == ((d1 \div 100) * (100000 + (market_analysis.average_reputation - 5000)))
                 \div 1000
    IN  ((d2 \div 100) * (100 + jitter))

CalculateTotalDemand(market_analysis, current_market, jitter) ==
    LET base_demand == current_market.total_passengers
        d1 == (base_demand * (1000 + 2 * market_analysis.competition_intensity)) \div 1000
        d2 == ((d1 \div 100) * (100000 + (market_analysis.average_reputation - 5000)))
                 \div 1000
        d3 == ((d2 \div 100) * (100 + jitter))
    IN  Max(800000, Min(1500000, d3))

(* the MarketState built at lines 46-52 *)
UpdatedMarket_AccumulatedEvents(market_analysis, current_market, new_events, jitter) ==
    [total_passengers    |-> CalculateTotalDemand(market_analysis, current_market, jitter),
     competition_level   |-> market_analysis.competition_intensity,
     economic_conditions |-> DetermineEconomicConditions(current_market.events \o new_events),
     events              |-> new_events]

UpdatedMarket(market_analysis, current_market, new_events, jitter) ==
    [total_passengers    |-> CalculateTotalDemand(market_analysis, current_market, jitter),
     competition_level   |-> market_analysis.competition_intensity,
     economic_conditions |-> DetermineEconomicConditions(new_events),
     events              |-> new_events]

----------------------------------------------------------------------------
(* agents/evaluation_agent.py *)

(* Text returned by the evaluator's completion call, by what the parser   *)
(* makes of it: [kind, value].                                              *)
(*   "json"     a JSON object with a numeric "score" and well-typed lists  *)
(*   "badlists" a JSON object whose "strengths" is not a list of strings   *)
(*   "text"     no JSON object; a "score: <digits>" token in the text      *)
(*   "notoken"  no JSON object and no score token                          *)
Resp(kind, value) == [kind |-> kind, value |-> value]

DEFAULT_TEXT_SCORE == 75

(* _parse_ai_feedback and _simple_text_parsing *)
ParseAiFeedback(resp) ==
    LET raw == IF resp.kind = "notoken" THEN DEFAULT_TEXT_SCORE ELSE resp.value
    IN  [score             |-> Min(100, Max(0, raw)),
         strengths         |-> <<"from_response">>,
         improvement_areas |-> <<"from_response">>,
         well_typed        |-> resp.kind # "badlists"]

TruncDiv(a, b) == IF a >= 0 THEN a \div b ELSE -((-a) \div b)

(* min(100, max(0, ...)) of line 209 *)
ClampScore_Unbounded(score) == score

ClampScore(score) == Min(100, Max(0, score))

(* _generate_fallback_evaluation.  approval_rate = a/n, budget_efficiency *)
(* = c/b; the comparisons and the score are computed on the fractions.    *)
FallbackEvaluation(team_id, plan, company_response) ==
    LET a  == Len(company_response.approved_actions)
        n  == Len(plan.actions)
        c  == company_response.cash_used
        b  == plan.total_budget
        rn == IF n > 0 THEN a ELSE 0           \* approval_rate = rn / rd
        rd == IF n > 0 THEN n ELSE 1
        en == IF b > 0 THEN c ELSE 0           \* budget_efficiency = en / ed
        ed == IF b > 0 THEN b ELSE 1
        base_num == 50 * rn * ed + 30 * en * rd + 20 * rd * ed
        score == ClampScore(TruncDiv(base_num, rd * ed))
        strengths ==
            (IF 10 * rn > 8 * rd THEN <<"High plan feasibility">> ELSE <<>>)
            \o (IF 10 * en > 7 * ed THEN <<"Efficient resource allocation">> ELSE <<>>)
            \o (IF n > 5 THEN <<"Comprehensive planning">> ELSE <<>>)
        improvement_areas ==
            (IF 2 * rn < rd THEN <<"Plan feasibility and validation">> ELSE <<>>)
            \o (IF 2 * en < ed THEN <<"Budget planning and utilization">> ELSE <<>>)
            \o (IF Len(company_response.rejected_actions) > 3
                THEN <<"Resource constraint awareness">> ELSE <<>>)
    IN  [team_id |-> team_id, score |-> score,
         strengths |-> IF strengths = <<>> THEN <<"Strategic initiative">> ELSE strengths,
         improvement_areas |-> IF improvement_areas = <<>> THEN <<"Strategic alignment">>
                               ELSE improvement_areas,
         source |-> "fallback"]

AiEvaluation(team_id, parsed) ==
    [team_id |-> team_id, score |-> parsed.score, strengths |-> parsed.strengths,
     improvement_areas |-> parsed.improvement_areas, source |-> "ai"]

NoMarketStateError == <<"'NoneType' object has no attribute 'economic_conditions'", "">>

(* What evaluate_team_performance does before its try block: the two      *)
(* reads, the not-found check and _build_evaluation_prompt.  <<>> when    *)
(* the prompt is built, else the exception that leaves the method.        *)
EvaluationPreamble(team_id, airline_state, market_state) ==
    IF IsNone(airline_state) THEN NotFoundError(team_id)
    ELSE IF IsNone(market_state) THEN NoMarketStateError
    ELSE <<>>

(* generate_instructor_summary *)
RECURSIVE SumShares(_)
SumShares(sts) ==
    IF sts = <<>> THEN 0 ELSE sts[1].market_share + SumShares(Tail(sts))

InstructorSummary(all_airlines) ==
    IF all_airlines = <<>>
    THEN [message |-> "No airline data available", total_teams |-> 0,
          market_distribution |-> <<>>, avg_reputation |-> 0, avg_market_share |-> 0]
    ELSE [message |-> "", total_teams |-> Len(all_airlines),
          market_distribution |-> all_airlines,
          avg_reputation |-> (SumReputation(all_airlines) * 100) \div Len(all_airlines),
          avg_market_share |-> SumShares(all_airlines) \div Len(all_airlines)]

----------------------------------------------------------------------------
(* workflow.py: SimulationWorkflow.process_semester_plans *)

Entry(plan, response, status, error) ==
    [plan |-> plan, company_response |-> response, status |-> status,
     error |-> error, has_market_results |-> FALSE,
     evaluation |-> None, evaluation_error |-> None]

NoObs ==
    [company_steps |-> 0, market_calls |-> 0, market_writes |-> 0,
     market_raised |-> FALSE, impl |-> None, eval_calls |-> <<>>, summary_calls |-> 0]

NoLocals == [all_airlines |-> <<>>, current_market |-> DefaultMarket,
             market_analysis |-> AnalyzeMarketCompetition(<<>>),
             updated_airlines |-> <<>>]

InsertKey(keys, k) == IF k \in Range(keys) THEN keys ELSE Append(keys, k)

(* the two except clauses of the company loop body and what follows them *)
CompanyExcept(plan, err) ==
    [entry |-> Entry(plan, None, "company_failed", err), next |-> "company"]

(* for plan in plans: is there a plan left *)
CompanyLoopDone_FirstOnly(k, plans) == k > Len(plans) \/ k > 1

CompanyLoopDone(k, plans) == k > Len(plans)

(* the status test of step 4 *)
NeedsEvaluation_MarketOnly(status) == status = "market_processed"

NeedsEvaluation(status) == status \in {"company_processed", "market_processed"}

(* market_results or {} *)
EvaluatorMarketArgument_NoDefault(mr) == IF IsNone(mr) THEN "None" ELSE "market_results"

EvaluatorMarketArgument(mr) == IF IsNone(mr) THEN "empty_dict" ELSE "market_results"

(* Store failures (a read or write that raises inside database.py) and   *)
(* exceptions from outside the modelled code are injected at most         *)
(* MaxFaults times.  A raising or hanging completion call is an ordinary  *)
(* outcome and is not counted.                                             *)
Flags == IF faults < MaxFaults THEN BOOLEAN ELSE {TRUE}
Cost(flag) == IF flag THEN 0 ELSE 1

(* Stores the program can be in when a run starts: t1 as registered, or   *)
(* as left by earlier runs.                                                 *)
SampleStates(team) ==
    { InitialAirline(team),
      [team_id |-> team, cash |-> 400000, aircraft_count |-> 1, routes |-> <<>>,
       market_share |-> 5500, reputation |-> 100] }

Init ==
    /\ airlines \in {[t \in TeamIds |-> IF t = "t1" THEN Some(s1)
                                       ELSE IF t \in Registered THEN Some(InitialAirline(t))
                                       ELSE None] : s1 \in SampleStates("t1")}
    /\ market \in {None, Some(DefaultMarket)}
    /\ feedback = <<>>
    /\ pc = "idle"
    /\ batch = <<>>
    /\ i = 0
    /\ results = [t \in TeamIds |-> None]
    /\ order = <<>>
    /\ company_responses = <<>>
    /\ market_results = None
    /\ mk = NoLocals
    /\ summary = None
    /\ runs = 0
    /\ faults = 0
    /\ obs = NoObs

(* A call of process_semester_plans(plans): lines 28-29 *)
StartRun ==
    /\ pc \in {"idle", "returned"}
    /\ runs < MaxRuns
    /\ \E b \in Batches : batch' = b
    /\ runs' = runs + 1
    /\ pc' = "company"
    /\ i' = 1
    /\ results' = [t \in TeamIds |-> None]
    /\ order' = <<>>
    /\ company_responses' = <<>>
    /\ market_results' = None
    /\ mk' = NoLocals
    /\ summary' = None
    /\ obs' = NoObs
    /\ UNCHANGED <<airlines, market, feedback, faults>>

Observe(team, plan, out, writeOk) ==
    Some([team_id |-> team, plan |-> plan, before |-> Val(out.before),
          response |-> Val(out.response), persisted |-> writeOk])

(* One iteration of the company loop (lines 36-53) with the whole of      *)
(* CompanyAgent.process_plan.                                               *)
CompanyStep ==
    /\ pc = "company"
    /\ ~CompanyLoopDone(i, batch)
    /\ \E body \in PlanBodies, readOk \in Flags, writeOk \in Flags, llm \in LlmOutcomes :
         LET team == batch[i]
             plan == Plan(team, body)
             out  == ProcessPlan(airlines, plan, team, readOk, writeOk, llm)
         IN  CASE out.kind = "raise" ->
                    LET x == CompanyExcept(plan, out.error)
                    IN  /\ writeOk /\ llm = "ok"
                        /\ results' = [results EXCEPT ![team] = Some(x.entry)]
                        /\ order' = InsertKey(order, team)
                        /\ pc' = x.next
                        /\ i' = i + 1
                        /\ faults' = faults + Cost(readOk)
                        /\ obs' = [obs EXCEPT !.company_steps = @ + 1]
                        /\ UNCHANGED <<airlines, company_responses>>
               [] out.kind = "hang" ->
                    /\ writeOk
                    /\ pc' = "hung"
                    /\ UNCHANGED <<airlines, results, order, i, company_responses, obs, faults>>
               [] out.kind = "ok" ->
                    /\ airlines' = out.store
                    /\ company_responses' = Append(company_responses, Val(out.response))
                    /\ results' = [results EXCEPT ![team] =
                                      Some(Entry(plan, out.response, "company_processed", None))]
                    /\ order' = InsertKey(order, team)
                    /\ obs' = [obs EXCEPT !.impl = Observe(team, plan, out, writeOk),
                                          !.company_steps = @ + 1]
                    /\ i' = i + 1
                    /\ pc' = "company"
                    /\ faults' = faults + Cost(writeOk)
    /\ UNCHANGED <<market, feedback, batch, market_results, mk, summary, runs>>

(* Entry into MarketAgent.evaluate_market_performance (workflow.py 58,    *)
(* market_agent.py 18-31): the two reads and the competition analysis.    *)
MarketBegin ==
    /\ pc = "company"
    /\ CompanyLoopDone(i, batch)
    /\ \E readAll \in Flags, readMarket \in Flags :
         LET all_airlines == GetAllAirlineStates(readAll)
             found == GetMarketState(readMarket)
         IN  /\ readMarket \/ ~IsNone(market)
             /\ Cost(readAll) + Cost(readMarket) + faults <= MaxFaults
             /\ faults' = faults + Cost(readAll) + Cost(readMarket)
             /\ mk' = [all_airlines |-> all_airlines,
                       current_market |-> IF IsNone(found) THEN DefaultMarket ELSE Val(found),
                       market_analysis |-> AnalyzeMarketCompetition(all_airlines),
                       updated_airlines |-> <<>>]
    /\ pc' = "market"
    /\ i' = 1
    /\ obs' = [obs EXCEPT !.market_calls = @ + 1]
    /\ UNCHANGED <<airlines, market, feedback, batch, results, order,
                   company_responses, market_results, summary, runs>>

(* Draws of the random source and responses of the text-generation       *)
(* service explored in the market stage.                                   *)
ShareJitters == {10}
DemandJitters == {-5}
EventDraws == {<<3, 1, 2>>}
MarketResponses ==
    {Resp("raise", 0), Resp("hang", 0), Resp("change", -9)}

(* One iteration of the loop over all_airlines (market_agent.py 38-43);   *)
(* jitters and responses are the draws of random.uniform and the answers  *)
(* of the completion call the iteration can meet.                          *)
MarketAirlineOn(jitters, responses) ==
    /\ pc = "market"
    /\ i <= Len(mk.all_airlines)
    /\ \E jitter \in jitters, resp \in responses, writeOk \in Flags :
         IF resp.kind = "hang"
         THEN /\ writeOk
              /\ pc' = "hung"
              /\ UNCHANGED <<airlines, mk, i, faults>>
         ELSE LET updated_airline ==
                      CalculateAirlinePerformance(mk.all_airlines[i], mk.market_analysis,
                                                  jitter, resp)
              IN  /\ mk' = [mk EXCEPT !.updated_airlines = Append(@, updated_airline)]
                  /\ airlines' = UpdateAirlineState(airlines, updated_airline, writeOk)
                  /\ faults' = faults + Cost(writeOk)
                  /\ i' = i + 1
                  /\ pc' = "market"
    /\ UNCHANGED <<market, feedback, batch, results, order, company_responses,
                   market_results, summary, runs, obs>>

MarketAirline == MarketAirlineOn(ShareJitters, MarketResponses)

(* lines 61-64 of workflow.py *)
MarkMarketProcessed_EveryEntry(res) ==
    [t \in TeamIds |->
        IF IsNone(res[t]) THEN res[t]
        ELSE IF Val(res[t]).status = "company_processed"
        THEN Some([Val(res[t]) EXCEPT !.has_market_results = TRUE,
                                      !.status = "market_processed"])
        ELSE Some([Val(res[t]) EXCEPT !.has_market_results = TRUE])]

MarkMarketProcessed(res) ==
    [t \in TeamIds |->
        IF ~IsNone(res[t]) /\ Val(res[t]).status = "company_processed"
        THEN Some([Val(res[t]) EXCEPT !.has_market_results = TRUE,
                                      !.status = "market_processed"])
        ELSE res[t]]

(* The end of evaluate_market_performance (market_agent.py 34, 46-60) and *)
(* the update of results (workflow.py 61-64); draws and jitters are the   *)
(* outcomes of the random source the call can meet.                        *)
MarketCommitOn(draws, jitters) ==
    /\ pc = "market"
    /\ i > Len(mk.all_airlines)
    /\ \E draw \in draws, jitter \in jitters, writeOk \in Flags :
         LET new_events == GenerateMarketEvents(draw[1], draw[2], draw[3])
             updated_market == UpdatedMarket(mk.market_analysis, mk.current_market,
                                             new_events, jitter)
         IN  /\ market' = UpdateMarketState(market, updated_market, writeOk)
             /\ faults' = faults + Cost(writeOk)
             /\ market_results' = Some([market_state |-> updated_market,
                                        airlines |-> mk.updated_airlines,
                                        market_analysis |-> mk.market_analysis])
    /\ results' = MarkMarketProcessed(results)
    /\ obs' = [obs EXCEPT !.market_writes = @ + 1]
    /\ pc' = "evaluation"
    /\ i' = 1
    /\ UNCHANGED <<airlines, feedback, batch, order, company_responses, mk, summary, runs>>

MarketCommit == MarketCommitOn(EventDraws, DemandJitters)

(* An exception leaves evaluate_market_performance (workflow.py 66-69)    *)
MarketRaise ==
    /\ pc = "market"
    /\ faults < MaxFaults
    /\ faults' = faults + 1
    /\ market_results' = None
    /\ obs' = [obs EXCEPT !.market_raised = TRUE]
    /\ pc' = "evaluation"
    /\ i' = 1
    /\ UNCHANGED <<airlines, market, feedback, batch, results, order,
                   company_responses, mk, summary, runs>>

EvalResponses ==
    {Resp("raise", 0), Resp("hang", 0), Resp("json", 150), Resp("badlists", 85)}

(* the except clause of step 4 (lines 86-89) and what follows it *)
EvaluationExcept_Reraise(entry, err) ==
    [entry |-> [entry EXCEPT !.evaluation_error = err, !.status = "evaluation_failed"],
     next |-> "raised"]

EvaluationExcept(entry, err) ==
    [entry |-> [entry EXCEPT !.evaluation_error = err, !.status = "evaluation_failed"],
     next |-> "evaluation"]

(* One iteration of the loop of step 4 (workflow.py 73-89) with the whole *)
(* of EvaluationAgent.evaluate_team_performance; responses is the set of  *)
(* texts and failures the completion call can answer with.                *)
EvaluationStepOn(responses) ==
    /\ pc = "evaluation"
    /\ i <= Len(order)
    /\ LET team_id == order[i]
           result == Val(results[team_id])
       IN  IF ~NeedsEvaluation(result.status)
           THEN /\ i' = i + 1
                /\ UNCHANGED <<pc, results, feedback, obs, faults>>
           ELSE \E readOk \in Flags, readMarket \in Flags, resp \in responses,
                   saveOk \in Flags :
                  LET called == [obs EXCEPT !.eval_calls =
                                    Append(@, [team_id |-> team_id,
                                               market_results |->
                                                   EvaluatorMarketArgument(market_results)])]
                      err == EvaluationPreamble(team_id, GetAirlineState(team_id, readOk),
                                                GetMarketState(readMarket))
                      parsed == ParseAiFeedback(resp)
                      primary == resp.kind # "raise" /\ parsed.well_typed
                      evaluation ==
                          IF primary THEN AiEvaluation(team_id, parsed)
                          ELSE FallbackEvaluation(team_id, result.plan,
                                                  Val(result.company_response))
                  IN  /\ Cost(readOk) + Cost(readMarket) + Cost(saveOk) + faults <= MaxFaults
                      /\ readMarket \/ ~IsNone(market)
                      /\ IF err # <<>>
                         THEN LET x == EvaluationExcept(result, err)
                              IN  /\ saveOk /\ resp.kind = "raise"
                                  /\ readOk \/ readMarket
                                  /\ results' = [results EXCEPT ![team_id] = Some(x.entry)]
                                  /\ pc' = x.next
                                  /\ i' = i + 1
                                  /\ obs' = called
                                  /\ faults' = faults + Cost(readOk) + Cost(readMarket)
                                  /\ UNCHANGED feedback
                         ELSE IF resp.kind = "hang"
                         THEN /\ saveOk
                              /\ pc' = "hung"
                              /\ obs' = called
                              /\ UNCHANGED <<results, feedback, i, faults>>
                         ELSE /\ saveOk \/ primary
                              /\ feedback' = IF primary /\ saveOk
                                             THEN Append(feedback, evaluation) ELSE feedback
                              /\ results' = [results EXCEPT ![team_id] =
                                               Some([result EXCEPT
                                                       !.evaluation = Some(evaluation),
                                                       !.status = "completed"])]
                              /\ obs' = called
                              /\ faults' = faults + Cost(saveOk)
                              /\ i' = i + 1
                              /\ pc' = "evaluation"
    /\ UNCHANGED <<airlines, market, batch, order, company_responses, market_results,
                   mk, summary, runs>>

EvaluationStep == EvaluationStepOn(EvalResponses)

(* Lines 95-101: the instructor summary and the return *)
SummaryAndReturn ==
    /\ pc = "evaluation"
    /\ i > Len(order)
    /\ \E readAll \in Flags, raises \in {~f : f \in Flags} :
         /\ Cost(readAll) + Cost(~raises) + faults <= MaxFaults
         /\ faults' = faults + Cost(readAll) + Cost(~raises)
         /\ summary' = IF raises THEN None
                       ELSE Some(InstructorSummary(GetAllAirlineStates(readAll)))
    /\ obs' = [obs EXCEPT !.summary_calls = @ + 1]
    /\ pc' = "returned"
    /\ UNCHANGED <<airlines, market, feedback, batch, i, results, order,
                   company_responses, market_results, mk, runs>>

Next ==
    \/ StartRun
    \/ CompanyStep
    \/ MarketBegin
    \/ MarketAirline
    \/ MarketCommit
    \/ MarketRaise
    \/ EvaluationStep
    \/ SummaryAndReturn

Spec == Init /\ [][Next]_vars

(* The interpreter keeps executing the run it is in. *)
FairSpec == Init /\ [][Next]_vars /\ WF_vars(Next)

----------------------------------------------------------------------------
(* CompanyAgent.process_plan by itself, on the catalog plans and states   *)

InitPlan ==
    /\ airlines \in {[t \in TeamIds |-> IF t = "t1" THEN Some(s1) ELSE None] :
                        s1 \in CatalogStates}
    /\ market = None
    /\ feedback = <<>>
    /\ pc = "idle"
    /\ batch = <<>>
    /\ i = 0
    /\ results = [t \in TeamIds |-> None]
    /\ order = <<>>
    /\ company_responses = <<>>
    /\ market_results = None
    /\ mk = NoLocals
    /\ summary = None
    /\ runs = 0
    /\ faults = 0
    /\ obs = NoObs

ProcessPlanCall ==
    /\ pc = "idle"
    /\ \E team \in {"t0", "t1"}, body \in CatalogPlans, writeOk \in Flags, llm \in LlmOutcomes :
         LET plan == Plan(team, body)
             out  == ProcessPlan(airlines, plan, team, TRUE, writeOk, llm)
         IN
         /\ CASE out.kind = "raise" ->
                    /\ writeOk /\ llm = "ok"
                    /\ pc' = "plan_raised"
                    /\ UNCHANGED <<airlines, obs, faults>>
               [] out.kind = "hang" ->
                    /\ writeOk
                    /\ pc' = "hung"
                    /\ UNCHANGED <<airlines, obs, faults>>
               [] out.kind = "ok" ->
                    /\ airlines' = out.store
                    /\ obs' = [obs EXCEPT !.impl = Observe(team, plan, out, writeOk)]
                    /\ faults' = faults + Cost(writeOk)
                    /\ pc' = "plan_returned"
         /\ batch' = <<team>>
    /\ UNCHANGED <<market, feedback, i, results, order, company_responses,
                   market_results, mk, summary, runs>>

NextPlan == ProcessPlanCall

SpecPlan == InitPlan /\ [][NextPlan]_vars

----------------------------------------------------------------------------
(* EvaluationAgent._generate_fallback_evaluation by itself, on two        *)
(* implementation outcomes: a plan of n actions of one cost of which the  *)
(* first a were approved, under a total_budget.                            *)

MaxFallbackActions == 6

FallbackAction == Act("staff_training", 2000, None)

FallbackInputs ==
    { [plan |-> [team_id |-> "t1", total_budget |-> b,
                 actions |-> [k \in 1..n |-> FallbackAction]],
       response |-> [approved_actions |-> [k \in 1..a |-> FallbackAction],
                     rejected_actions |-> [k \in 1..(n - a) |-> FallbackAction],
                     cash_used |-> a * FallbackAction.cost,
                     reasoning |-> <<>>]] :
        n \in 0..MaxFallbackActions, a \in 0..MaxFallbackActions,
        b \in {0, 10000, 20000} }

InitFallback ==
    /\ airlines = [t \in TeamIds |-> IF t \in Registered THEN Some(InitialAirline(t))
                                      ELSE None]
    /\ market = None
    /\ feedback = <<>>
    /\ pc = "fallback"
    /\ batch = <<"t1", "t2">>
    /\ i = 1
    /\ \E x, y \in {in \in FallbackInputs :
                        Len(in.response.approved_actions)
                          + Len(in.response.rejected_actions) = Len(in.plan.actions)} :
          results = [t \in TeamIds |->
                        IF t = "t1"
                        THEN Some(Entry([x.plan EXCEPT !.team_id = "t1"], Some(x.response),
                                        "company_processed", None))
                        ELSE IF t = "t2"
                        THEN Some(Entry([y.plan EXCEPT !.team_id = "t2"], Some(y.response),
                                        "company_processed", None))
                        ELSE None]
    /\ order = <<"t1", "t2">>
    /\ company_responses = <<>>
    /\ market_results = None
    /\ mk = NoLocals
    /\ summary = None
    /\ runs = 0
    /\ faults = 0
    /\ obs = NoObs

(* the except clause of evaluate_team_performance (lines 61-65) for the   *)
(* next team                                                                *)
FallbackCall ==
    /\ pc = "fallback"
    /\ i <= Len(order)
    /\ LET team_id == order[i]
           result == Val(results[team_id])
           evaluation == FallbackEvaluation(team_id, result.plan,
                                            Val(result.company_response))
       IN  results' = [results EXCEPT ![team_id] =
                          Some([result EXCEPT !.evaluation = Some(evaluation),
                                              !.status = "completed"])]
    /\ i' = i + 1
    /\ UNCHANGED <<airlines, market, feedback, pc, batch, order, company_responses,
                   market_results, mk, summary, runs, faults, obs>>

NextFallback == FallbackCall

SpecFallback == InitFallback /\ [][NextFallback]_vars

----------------------------------------------------------------------------
(* MarketAgent.evaluate_market_performance by itself (step 3 of a run     *)
(* with no plans), on the rosters earlier runs can leave: no team at all, *)
(* teams that never bought an aircraft, teams that gave their aircraft    *)
(* back (purchase_aircraft with a negative count) after the market stage  *)
(* had given them a share.  Any of the three team ids may have a document *)
(* here.                                                                    *)

RosterStates(team) ==
    [team_id : {team}, cash : {MAX_SEMESTER_BUDGET}, aircraft_count : {0, 2},
     routes : {<<>>}, market_share : {0, 5000}, reputation : {INITIAL_REPUTATION}]

Rosters ==
    {r \in [TeamIds -> {None} \cup {Some(st) : st \in UNION {RosterStates(t) : t \in TeamIds}}] :
        \A t \in TeamIds : IsNone(r[t]) \/ Val(r[t]).team_id = t}

InitMarket ==
    /\ airlines \in Rosters
    /\ market \in {None, Some(DefaultMarket)}
    /\ feedback = <<>>
    /\ pc = "company"
    /\ batch = <<>>
    /\ i = 1
    /\ results = [t \in TeamIds |-> None]
    /\ order = <<>>
    /\ company_responses = <<>>
    /\ market_results = None
    /\ mk = NoLocals
    /\ summary = None
    /\ runs = 1
    /\ faults = 0
    /\ obs = NoObs

NextMarket ==
    \/ MarketBegin
    \/ MarketAirline
    \/ MarketCommit
    \/ MarketRaise

SpecMarket == InitMarket /\ [][NextMarket]_vars

----------------------------------------------------------------------------
(* The market stage against every kind of answer of the text-generation   *)
(* service: the call raises, the text holds no "reputation_change"        *)
(* integer, or it holds one inside or outside [-5, 5].  t1 has any of the *)
(* reputations earlier runs can leave, the out-of-range -10 of a negative *)
(* marketing campaign included.                                             *)

ReputationChoices == {-10, 0, 3, 50, 97, 100}

ReputationRosters ==
    {[t \in TeamIds |->
         IF t = "t1" THEN Some([InitialAirline(t) EXCEPT !.reputation = r,
                                                         !.aircraft_count = a])
         ELSE IF t = "t2" /\ has2 THEN Some(InitialAirline(t))
         ELSE None] : r \in ReputationChoices, a \in {0, 2}, has2 \in BOOLEAN}

ReputationResponses ==
    {Resp("raise", 0), Resp("nomatch", 0)}
      \cup {Resp("change", v) : v \in {-9, -5, -2, 0, 4, 5, 12}}

ReputationJitters == {-10, 10}

InitReputation ==
    /\ airlines \in ReputationRosters
    /\ market \in {None, Some(DefaultMarket)}
    /\ feedback = <<>>
    /\ pc = "company"
    /\ batch = <<>>
    /\ i = 1
    /\ results = [t \in TeamIds |-> None]
    /\ order = <<>>
    /\ company_responses = <<>>
    /\ market_results = None
    /\ mk = NoLocals
    /\ summary = None
    /\ runs = 1
    /\ faults = 0
    /\ obs = NoObs

ReputationMarketAirline == MarketAirlineOn(ReputationJitters, ReputationResponses)

NextReputation ==
    \/ MarketBegin
    \/ ReputationMarketAirline
    \/ MarketCommit
    \/ MarketRaise

SpecReputation == InitReputation /\ [][NextReputation]_vars

----------------------------------------------------------------------------
(* The market stage against every draw of _generate_market_events (each   *)
(* category silent or any of its five texts) and both ends of the demand  *)
(* fluctuation.  The market_state document is missing, the default, or    *)
(* one the instructor's upload left with a demand outside the usual range *)
(* and an earlier event; the roster is empty or one airline with no or    *)
(* many aircraft and the lowest or highest reputation.                     *)

PreviousDemands == {0, 1000000, 1700000}

PreviousMarkets ==
    {None} \cup
    {Some([DefaultMarket EXCEPT !.total_passengers = p, !.events = ev,
                                !.economic_conditions = DetermineEconomicConditions(ev)]) :
        p \in PreviousDemands, ev \in {<<>>, <<<<"economic", 3>>>>}}

DemandRosters ==
    {[t \in TeamIds |-> None]} \cup
    {[t \in TeamIds |->
         IF t = "t1" THEN Some([InitialAirline(t) EXCEPT !.reputation = r,
                                                         !.aircraft_count = a])
         ELSE None] : r \in {0, 100}, a \in {0, 30}}

AllEventDraws == (0..EVENTS_PER_CATEGORY) \X (0..EVENTS_PER_CATEGORY) \X (0..EVENTS_PER_CATEGORY)

DemandFluctuations == {-5, 5}

InitDemand ==
    /\ airlines \in DemandRosters
    /\ market \in PreviousMarkets
    /\ feedback = <<>>
    /\ pc = "company"
    /\ batch = <<>>
    /\ i = 1
    /\ results = [t \in TeamIds |-> None]
    /\ order = <<>>
    /\ company_responses = <<>>
    /\ market_results = None
    /\ mk = NoLocals
    /\ summary = None
    /\ runs = 1
    /\ faults = 0
    /\ obs = NoObs

DemandMarketCommit == MarketCommitOn(AllEventDraws, DemandFluctuations)

NextDemand ==
    \/ MarketBegin
    \/ MarketAirline
    \/ DemandMarketCommit
    \/ MarketRaise

SpecDemand == InitDemand /\ [][NextDemand]_vars

----------------------------------------------------------------------------
(* The company loop of a run (workflow.py 36-53) on a store in which      *)
(* every registered team is as registration left it, with a cash of       *)
(* MAX_SEMESTER_BUDGET, for every batch of up to MaxPlans plans, those    *)
(* that name a team more than once included.                               *)

InitBatch ==
    /\ airlines = [t \in TeamIds |-> IF t \in Registered THEN Some(InitialAirline(t))
                                     ELSE None]
    /\ market = Some(DefaultMarket)
    /\ feedback = <<>>
    /\ pc = "company"
    /\ batch \in Batches
    /\ i = 1
    /\ results = [t \in TeamIds |-> None]
    /\ order = <<>>
    /\ company_responses = <<>>
    /\ market_results = None
    /\ mk = NoLocals
    /\ summary = None
    /\ runs = 1
    /\ faults = 0
    /\ obs = NoObs

NextBatch == CompanyStep

SpecBatch == InitBatch /\ [][NextBatch]_vars

----------------------------------------------------------------------------
(* MarketAgent._analyze_market_competition by itself, on rosters of up to *)
(* MaxRoster teams whose market shares are fractions the model's unit     *)
(* holds exactly (1/5, 1/4, 1/2, 1).                                        *)

MaxRoster == 5

RosterIds == <<"r1", "r2", "r3", "r4", "r5", "r6">>

ShareChoices == {ShareOne \div 5, ShareOne \div 4, ShareOne \div 2, ShareOne}

AnalysisRosters ==
    UNION {[1..n -> ShareChoices] : n \in 0..MaxRoster}

RosterOf(shares) ==
    [k \in DOMAIN shares |->
        [team_id |-> RosterIds[k], cash |-> MAX_SEMESTER_BUDGET, aircraft_count |-> 1,
         routes |-> <<>>, market_share |-> shares[k], reputation |-> INITIAL_REPUTATION]]

InitAnalysis ==
    /\ airlines = [t \in TeamIds |-> None]
    /\ market = None
    /\ feedback = <<>>
    /\ pc = "analysis"
    /\ batch = <<>>
    /\ i = 0
    /\ results = [t \in TeamIds |-> None]
    /\ order = <<>>
    /\ company_responses = <<>>
    /\ market_results = None
    /\ \E shares \in AnalysisRosters :
          mk = [NoLocals EXCEPT !.all_airlines = RosterOf(shares)]
    /\ summary = None
    /\ runs = 0
    /\ faults = 0
    /\ obs = NoObs

(* market_analysis = self._analyze_market_competition(all_airlines) *)
AnalyzeCall ==
    /\ pc = "analysis"
    /\ mk' = [mk EXCEPT !.market_analysis = AnalyzeMarketCompetition(mk.all_airlines)]
    /\ pc' = "analysed"
    /\ UNCHANGED <<airlines, market, feedback, batch, i, results, order,
                   company_responses, market_results, summary, runs, faults, obs>>

NextAnalysis == AnalyzeCall

SpecAnalysis == InitAnalysis /\ [][NextAnalysis]_vars

----------------------------------------------------------------------------
(* The evaluation stage of a run (workflow.py 71-89) while the            *)
(* text-generation service is down: every completion call raises.  The    *)
(* stage starts from the entries the earlier stages left for t1 and t2;   *)
(* t2 may have lost its 'airlines' document and the market_state document *)
(* may be missing.                                                          *)

ServiceDown == {Resp("raise", 0)}

InitOutage ==
    /\ airlines \in {[t \in TeamIds |-> IF t = "t1" \/ (t = "t2" /\ has2)
                                       THEN Some(InitialAirline(t)) ELSE None] :
                        has2 \in BOOLEAN}
    /\ market \in {None, Some(DefaultMarket)}
    /\ feedback = <<>>
    /\ pc = "evaluation"
    /\ batch = <<"t1", "t2">>
    /\ i = 1
    /\ \E x, y \in {in \in FallbackInputs :
                        Len(in.response.approved_actions)
                          + Len(in.response.rejected_actions) = Len(in.plan.actions)},
          status \in {"company_processed", "market_processed"} :
          results = [t \in TeamIds |->
                        IF t = "t1"
                        THEN Some([Entry([x.plan EXCEPT !.team_id = "t1"], Some(x.response),
                                         status, None)
                                     EXCEPT !.has_market_results = status = "market_processed"])
                        ELSE IF t = "t2"
                        THEN Some([Entry([y.plan EXCEPT !.team_id = "t2"], Some(y.response),
                                         status, None)
                                     EXCEPT !.has_market_results = status = "market_processed"])
                        ELSE None]
    /\ order = <<"t1", "t2">>
    /\ company_responses = <<>>
    /\ market_results = None
    /\ mk = NoLocals
    /\ summary = None
    /\ runs = 1
    /\ faults = 0
    /\ obs = NoObs

OutageEvaluationStep == EvaluationStepOn(ServiceDown)

NextOutage == OutageEvaluationStep

SpecOutage == InitOutage /\ [][NextOutage]_vars

----------------------------------------------------------------------------
(* Two runs on the same store that overlap in time: each plan submission  *)
(* builds its own SimulationWorkflow and calls process_semester_plans      *)
(* with its one plan (app.py 238-240), and no lock or transaction orders   *)
(* the store operations of two such calls.  The run followed by pc, i and  *)
(* mk is the run of t2's submission, from the end of its company loop on;  *)
(* the other run is the run of t1's submission, of which the company step  *)
(* is modelled: the read of process_plan (company_agent.py 154) and, after *)
(* the graph has run, its write (177) are two store operations that        *)
(* interleave with the steps of the first run.  obs.impl holds the locals  *)
(* of that process_plan call (plan, airline_state, result) from its read   *)
(* on; persisted says whether its write has been done.                     *)

InitOverlap ==
    \E body \in PlanBodies :
       LET plan == Plan("t2", body)
           airline_state == InitialAirline("t2")
           result == ImplementerNode(plan, airline_state)
           company_response == AgentResponse(result, ValidatorNode(plan, airline_state, "ok"))
       IN  /\ airlines = [t \in TeamIds |->
                             IF t = "t1" THEN Some(InitialAirline(t))
                             ELSE IF t = "t2"
                             THEN Some(UpdatedAirline(plan, airline_state, result))
                             ELSE None]
           /\ market \in {None, Some(DefaultMarket)}
           /\ feedback = <<>>
           /\ pc = "company"
           /\ batch = <<"t2">>
           /\ i = 2
           /\ results = [t \in TeamIds |->
                            IF t = "t2"
                            THEN Some(Entry(plan, Some(company_response),
                                            "company_processed", None))
                            ELSE None]
           /\ order = <<"t2">>
           /\ company_responses = <<company_response>>
           /\ market_results = None
           /\ mk = NoLocals
           /\ summary = None
           /\ runs = 1
           /\ faults = 0
           /\ obs = [NoObs EXCEPT !.company_steps = 1]

(* the other run: process_plan up to the end of graph.invoke (lines        *)
(* 154-165).  A completion call that never returns leaves the call here    *)
(* for ever, which is the same as the call not being made.                  *)
OtherRunRead ==
    /\ pc \in {"company", "market"}
    /\ IsNone(obs.impl)
    /\ \E body \in PlanBodies, llm \in LlmOutcomes \ {"hang"} :
         LET plan == Plan("t1", body)
             out  == ProcessPlan(airlines, plan, "t1", TRUE, FALSE, llm)
         IN  obs' = [obs EXCEPT !.impl = Observe("t1", plan, out, FALSE)]
    /\ UNCHANGED <<airlines, market, feedback, pc, batch, i, results, order,
                   company_responses, market_results, mk, summary, runs, faults>>

(* the other run: lines 167-177 of process_plan *)
OtherRunWrite ==
    /\ ~IsNone(obs.impl)
    /\ ~Val(obs.impl).persisted
    /\ LET own == Val(obs.impl)
       IN  /\ airlines' = UpdateAirlineState(airlines,
                              UpdatedAirline(own.plan, own.before, own.response), TRUE)
           /\ obs' = [obs EXCEPT !.impl = Some([own EXCEPT !.persisted = TRUE])]
    /\ UNCHANGED <<market, feedback, pc, batch, i, results, order,
                   company_responses, market_results, mk, summary, runs, faults>>

NextOverlap ==
    \/ MarketBegin
    \/ MarketAirline
    \/ MarketCommit
    \/ MarketRaise
    \/ OtherRunRead
    \/ OtherRunWrite

SpecOverlap == InitOverlap /\ [][NextOverlap]_vars

----------------------------------------------------------------------------
(* Properties *)

EntryOf(t) == Val(results[t])
HasEntry(t) == ~IsNone(results[t])
Terminal == {"completed", "company_failed", "evaluation_failed"}
AllTerminal == \A t \in TeamIds : HasEntry(t) => EntryOf(t).status \in Terminal
Impl == Val(obs.impl)

(* C1: the actions _implementer_node approves cost in total at most the    *)
(* cash of the team as process_plan read it.                                *)
C1_ApprovedWithinCash ==
    ~IsNone(obs.impl) =>
        SumCost(Impl.response.approved_actions) <= Impl.before.cash

(* a call that approved something and rejected a feasible action that the  *)
(* cash alone would have paid for                                           *)
C1_Witness ==
    /\ ~IsNone(obs.impl)
    /\ Impl.response.approved_actions # <<>>
    /\ \E k \in DOMAIN Impl.response.rejected_actions :
          LET a == Impl.response.rejected_actions[k]
          IN  a.cost > 0 /\ a.cost <= Impl.before.cash /\ IsActionFeasible(a, Impl.before)

(* C2: every persisted TeamState has cash >= 0, whatever was run.          *)
C2_CashNeverNegative ==
    \A t \in TeamIds : ~IsNone(airlines[t]) => Val(airlines[t]).cash >= 0

(* t1 spent its last cash on the first of its two plans and the second   *)
(* plan's purchase was rejected                                             *)
C2_Witness ==
    /\ pc = "returned"
    /\ Val(airlines["t1"]).cash = 0
    /\ ~IsNone(obs.impl)
    /\ Impl.before.cash = 0
    /\ Impl.response.rejected_actions # <<>>

(* C3: a team whose TeamState is absent at implementation time ends        *)
(* company_failed with the not-found message, and every other team of the *)
(* batch whose TeamState process_plan found ends completed.                *)
C3_AbsentTeamFailsOthersComplete ==
    pc = "returned" =>
        \A t \in Range(batch) :
            IsNone(airlines[t]) =>
                /\ EntryOf(t).status = "company_failed"
                /\ EntryOf(t).error = NotFoundError(t)
                /\ \A u \in Range(batch) \ {t} :
                      ~IsNone(EntryOf(u).company_response) => EntryOf(u).status = "completed"

(* C4: every team that reached company_processed ends the run completed,  *)
(* with an evaluation that carries a score.                                 *)
C4_EveryProcessedTeamScored ==
    pc = "returned" =>
        \A t \in TeamIds :
            HasEntry(t) /\ ~IsNone(EntryOf(t).company_response) =>
                EntryOf(t).status = "completed" /\ ~IsNone(EntryOf(t).evaluation)

StatusOf(res, plans, t) ==
    IF IsNone(res[t]) THEN (IF t \in Range(plans) THEN "received" ELSE "no_plan")
    ELSE Val(res[t]).status

ForwardMoves ==
    { <<"received", "company_processed">>, <<"received", "company_failed">>,
      <<"company_processed", "market_processed">>, <<"company_processed", "completed">>,
      <<"market_processed", "completed">>,
      <<"company_processed", "evaluation_failed">>,
      <<"market_processed", "evaluation_failed">> }

(* C5: within one run a team's status only moves forward along received,  *)
(* company_processed, market_processed, completed, or into company_failed *)
(* from received, or into evaluation_failed from a processed status; a     *)
(* terminal status is never left.                                           *)
C5_StatusOnlyMovesForward ==
    [][runs' = runs =>
         \A t \in TeamIds :
            LET before == StatusOf(results, batch, t)
                after  == StatusOf(results', batch', t)
            IN  before = after \/ <<before, after>> \in ForwardMoves]_vars

(* C6: when the run returns every team entry is terminal, and the         *)
(* instructor summary is computed only once every entry is terminal.       *)
C6_TerminalBeforeSummaryAndReturn ==
    /\ [](pc = "returned" => AllTerminal)
    /\ [][obs'.summary_calls > obs.summary_calls => AllTerminal]_vars

(* a returned run with a summary, a completed and a failed team *)
C6_Witness ==
    /\ pc = "returned"
    /\ ~IsNone(summary)
    /\ \E t, u \in TeamIds :
          /\ HasEntry(t) /\ EntryOf(t).status = "completed"
          /\ HasEntry(u) /\ EntryOf(u).status = "company_failed"

(* C7: the market stage is invoked once per run, only after every plan of *)
(* the batch went through the company step, and no company step follows   *)
(* it.                                                                      *)
C7_MarketOnceAfterAllPlans ==
    /\ obs.market_calls <= 1
    /\ pc \in {"market", "evaluation", "returned"} => obs.market_calls = 1
    /\ pc = "company" => obs.market_calls = 0
    /\ obs.market_calls = 1 =>
          /\ obs.company_steps = Len(batch)
          /\ \A t \in Range(batch) : HasEntry(t)

(* the market stage running after a batch of two plans, one failed *)
C7_Witness ==
    /\ pc = "market"
    /\ obs.market_calls = 1
    /\ Len(batch) = 2
    /\ \E t, u \in TeamIds :
          /\ HasEntry(t) /\ EntryOf(t).status = "company_processed"
          /\ HasEntry(u) /\ EntryOf(u).status = "company_failed"

WasEvaluatedWith(t, arg) ==
    \E k \in DOMAIN obs.eval_calls :
        obs.eval_calls[k] = [team_id |-> t, market_results |-> arg]

(* C8: after the market stage raised, every team that had an               *)
(* implementation outcome was passed to the evaluator with {} and is in a *)
(* terminal status when the run returns; company_failed teams stay so and *)
(* are not evaluated.                                                       *)
C8_MarketFailureStillEvaluates ==
    pc = "returned" /\ obs.market_raised =>
        \A t \in TeamIds :
            HasEntry(t) =>
                IF IsNone(EntryOf(t).company_response)
                THEN /\ EntryOf(t).status = "company_failed"
                     /\ \A k \in DOMAIN obs.eval_calls : obs.eval_calls[k].team_id # t
                ELSE /\ WasEvaluatedWith(t, "empty_dict")
                     /\ EntryOf(t).status \in {"completed", "evaluation_failed"}
                     /\ ~EntryOf(t).has_market_results

C8_Witness ==
    /\ pc = "returned"
    /\ obs.market_raised
    /\ \E t, u \in TeamIds :
          /\ HasEntry(t) /\ EntryOf(t).status = "completed"
          /\ HasEntry(u) /\ EntryOf(u).status = "company_failed"

(* C9: a completion call that hangs is cut off, and the run still returns *)
C9_HungCallIsCutOff == (pc = "hung") ~> (pc = "returned")

(* C10: no exception leaves process_semester_plans, and a started run      *)
(* returns its result map (unless a completion call never returns).        *)
C10_RunAlwaysReturns ==
    /\ [](pc # "raised")
    /\ (pc = "company") ~> (pc \in {"returned", "hung"})

(* a run that returned although the store, the market stage or the        *)
(* summary failed and a completion call raised                              *)
C10_Witness ==
    /\ pc = "returned"
    /\ faults > 0
    /\ \E t \in TeamIds :
          /\ HasEntry(t) /\ ~IsNone(EntryOf(t).evaluation)
          /\ Val(EntryOf(t).evaluation).source = "fallback"

(* the keys of the dict process_semester_plans returns (workflow.py 41-53, *)
(* 96, 101)                                                                 *)
ReturnedKeys ==
    Range(order) \cup (IF IsNone(summary) THEN {} ELSE {"_instructor_summary"})

(* C11: process_semester_plans([]) returns an error result and does not    *)
(* run the stages as for a normal batch.                                    *)
C11_EmptyBatchIsAnError ==
    pc = "returned" /\ batch = <<>> =>
        "error" \in ReturnedKeys /\ obs.market_calls = 0

(* C12: every action the implementer approved was feasible in the team    *)
(* state that includes the effects of the actions approved before it.      *)
C12_FeasibleAgainstUpdatedState ==
    ~IsNone(obs.impl) =>
        LET approved == Impl.response.approved_actions
        IN  \A k \in DOMAIN approved :
                IsActionFeasible(approved[k],
                                 ApplyAll(SubSeq(approved, 1, k - 1), Impl.before))

Perms(n) == {p \in [1..n -> 1..n] : \A j, k \in 1..n : p[j] = p[k] => j = k}

(* p lists the positions of `actions` in ascending cost, positions of     *)
(* equal cost in submission order                                           *)
StableAscending(p, actions) ==
    \A j, k \in DOMAIN actions :
        j < k => \/ actions[p[j]].cost < actions[p[k]].cost
                 \/ actions[p[j]].cost = actions[p[k]].cost /\ p[j] < p[k]

(* cash used after the first k actions of `sorted` were considered *)
RECURSIVE GreedyUsed(_, _, _)
GreedyUsed(sorted, k, st) ==
    IF k = 0 THEN 0
    ELSE LET u == GreedyUsed(sorted, k - 1, st)
         IN  IF u + sorted[k].cost <= st.cash /\ IsActionFeasible(sorted[k], st)
             THEN u + sorted[k].cost ELSE u

GreedyApproves(sorted, k, st) ==
    /\ GreedyUsed(sorted, k - 1, st) + sorted[k].cost <= st.cash
    /\ IsActionFeasible(sorted[k], st)

(* the actions of sorted[1..k] with decision `want`, in order *)
RECURSIVE Decided(_, _, _, _)
Decided(sorted, k, st, want) ==
    IF k = 0 THEN <<>>
    ELSE LET rest == Decided(sorted, k - 1, st, want)
         IN  IF GreedyApproves(sorted, k, st) = want THEN Append(rest, sorted[k]) ELSE rest

CostsOf(actions) == [k \in DOMAIN actions |-> actions[k].cost]

IsScenario13 ==
    /\ ~IsNone(obs.impl)
    /\ Impl.before.cash = 100000 /\ Impl.before.aircraft_count = 2
    /\ Impl.before.routes = <<>>
    /\ CostsOf(Impl.plan.actions) = <<40000, 30000, 50000>>

RECURSIVE CostOfPositions(_, _)
CostOfPositions(actions, S) ==
    IF S = {} THEN 0
    ELSE LET k == CHOOSE x \in S : TRUE
         IN  actions[k].cost + CostOfPositions(actions, S \ {k})

Affordable(actions, cash) ==
    {S \in SUBSET (DOMAIN actions) : CostOfPositions(actions, S) <= cash}

AllFeasibleNonNegative ==
    \A k \in DOMAIN Impl.plan.actions :
        /\ Impl.plan.actions[k].cost >= 0
        /\ IsActionFeasible(Impl.plan.actions[k], Impl.before)

(* C14: on a plan of feasible actions with non-negative costs the number  *)
(* of approved actions is the size of a largest subset of the plan whose  *)
(* total cost is at most the team's cash.                                   *)
C14_ApprovedCountIsMaximal ==
    ~IsNone(obs.impl) /\ AllFeasibleNonNegative =>
        /\ \E S \in Affordable(Impl.plan.actions, Impl.before.cash) :
              Cardinality(S) = Len(Impl.response.approved_actions)
        /\ \A S \in Affordable(Impl.plan.actions, Impl.before.cash) :
              Cardinality(S) <= Len(Impl.response.approved_actions)

(* a plan whose dearest action was submitted first and is the one left    *)
(* out, two cheaper ones being approved                                     *)
C14_Witness ==
    /\ ~IsNone(obs.impl) /\ AllFeasibleNonNegative
    /\ Len(Impl.plan.actions) = 3
    /\ Impl.plan.actions[1].cost = 50000
    /\ Impl.before.cash = 70000
    /\ Len(Impl.response.approved_actions) = 2
    /\ Impl.response.rejected_actions = <<Impl.plan.actions[1]>>

(* C15: between runs every persisted TeamState has reputation in [0,100]. *)
C15_ReputationInRange ==
    pc \in {"idle", "returned"} =>
        \A t \in TeamIds :
            ~IsNone(airlines[t]) =>
                Val(airlines[t]).reputation >= 0 /\ Val(airlines[t]).reputation <= 100

(* C16: between runs every persisted TeamState has market_share in [0,1]. *)
C16_MarketShareInRange ==
    pc \in {"idle", "returned"} =>
        \A t \in TeamIds :
            ~IsNone(airlines[t]) =>
                Val(airlines[t]).market_share >= 0 /\ Val(airlines[t]).market_share <= ShareOne

NoRepeat(s) == \A j, k \in DOMAIN s : s[j] = s[k] => j = k

(* C17: no persisted TeamState lists a route id twice. *)
C17_RoutesHaveNoDuplicates ==
    \A t \in TeamIds : ~IsNone(airlines[t]) => NoRepeat(Val(airlines[t]).routes)

(* a persisted call that approved two add_route actions for one route *)
C17_Witness ==
    /\ pc = "plan_returned"
    /\ ~IsNone(obs.impl) /\ Impl.persisted
    /\ \E j, k \in DOMAIN Impl.response.approved_actions :
          LET a == Impl.response.approved_actions[j]
              b == Impl.response.approved_actions[k]
          IN  /\ j < k
              /\ a.action_type = "add_route" /\ b.action_type = "add_route"
              /\ a.parameters = b.parameters
              /\ Val(a.parameters) \in Range(Val(airlines[Impl.team_id]).routes)
              /\ Val(a.parameters) \notin Range(Impl.before.routes)

MarketStateWrittenByMarketStage ==
    [][market' # market =>
          /\ pc = "market" /\ pc' = "evaluation"
          /\ obs.company_steps = Len(batch)
          /\ obs'.market_writes = obs.market_writes + 1]_vars

(* C18 as stated: in every run the MarketState record is written exactly  *)
(* once, by the market stage, after the company loop.                      *)
C18_WrittenExactlyOnce ==
    /\ [](pc = "returned" => obs.market_writes = 1)
    /\ MarketStateWrittenByMarketStage

(* C18, amended: in a run the MarketState record is written at most once, *)
(* only by the market stage and only after every plan's implementation    *)
(* step; a run that returns has written it once exactly when the market   *)
(* stage did not raise.                                                     *)
C18_WrittenAtMostOnceByMarketStage ==
    /\ [](obs.market_writes <= 1)
    /\ [](pc = "returned" => (obs.market_writes = 1 <=> ~obs.market_raised))
    /\ MarketStateWrittenByMarketStage

(* a returned run of two plans whose market stage replaced the record *)
C18_Witness ==
    /\ pc = "returned"
    /\ obs.company_steps = 2
    /\ obs.market_writes = 1
    /\ ~IsNone(market) /\ Val(market) # DefaultMarket

TimesSaved(evaluation) ==
    Cardinality({k \in DOMAIN feedback : feedback[k] = evaluation})

(* C19: every evaluation a team got, from the completion call or from the *)
(* fallback formula, is in the feedback history exactly once, and the     *)
(* history only grows at its end.                                           *)
C19_EveryEvaluationSavedOnce ==
    /\ [](\A t \in TeamIds :
             HasEntry(t) /\ ~IsNone(EntryOf(t).evaluation) =>
                 TimesSaved(Val(EntryOf(t).evaluation)) = 1)
    /\ [][Len(feedback') >= Len(feedback)
          /\ SubSeq(feedback', 1, Len(feedback)) = feedback]_vars

(* the three inputs the fallback is said to depend on, as exact fractions *)
ApprovalRate(e) ==
    IF Len(e.plan.actions) > 0
    THEN <<Len(Val(e.company_response).approved_actions), Len(e.plan.actions)>>
    ELSE <<0, 1>>

BudgetEfficiency(e) ==
    IF e.plan.total_budget > 0
    THEN <<Val(e.company_response).cash_used, e.plan.total_budget>>
    ELSE <<0, 1>>

SameFraction(p, q) == p[1] * q[2] = q[1] * p[2]

SameFallbackInputs(e, f) ==
    /\ SameFraction(ApprovalRate(e), ApprovalRate(f))
    /\ SameFraction(BudgetEfficiency(e), BudgetEfficiency(f))
    /\ Len(Val(e.company_response).rejected_actions)
         = Len(Val(f.company_response).rejected_actions)

(* C20: two fallback evaluations with the same approval rate, budget      *)
(* efficiency and number of rejected actions have the same score and the  *)
(* same strengths and improvement areas.                                    *)
C20_FallbackDependsOnThreeInputs ==
    \A t, u \in TeamIds :
        (/\ HasEntry(t) /\ HasEntry(u)
         /\ ~IsNone(EntryOf(t).evaluation) /\ ~IsNone(EntryOf(u).evaluation)
         /\ Val(EntryOf(t).evaluation).source = "fallback"
         /\ Val(EntryOf(u).evaluation).source = "fallback"
         /\ SameFallbackInputs(EntryOf(t), EntryOf(u)))
        => (/\ Val(EntryOf(t).evaluation).score = Val(EntryOf(u).evaluation).score
            /\ Val(EntryOf(t).evaluation).strengths = Val(EntryOf(u).evaluation).strengths
            /\ Val(EntryOf(t).evaluation).improvement_areas
                 = Val(EntryOf(u).evaluation).improvement_areas)

(* C21: while every completion call raises, a team whose TeamState and     *)
(* the MarketState are there and are read gets from                        *)
(* evaluate_team_performance the EvaluationFeedback of the fallback        *)
(* formula, with a score in [0,100], and its status becomes completed.     *)
PassedEvaluation(t) ==
    \E k \in 1..(i - 1) : order[k] = t

C21_OutageFallsBack ==
    (pc = "evaluation" /\ faults = 0) =>
        \A t \in Registered :
            (PassedEvaluation(t) /\ ~IsNone(airlines[t]) /\ ~IsNone(market)) =>
                LET e == EntryOf(t)
                IN  /\ e.status = "completed"
                    /\ ~IsNone(e.evaluation)
                    /\ Val(e.evaluation).source = "fallback"
                    /\ Val(e.evaluation).team_id = t
                    /\ Val(e.evaluation).score >= 0
                    /\ Val(e.evaluation).score <= 100
                    /\ IsNone(e.evaluation_error)

C21_Witness ==
    /\ pc = "evaluation" /\ faults = 0 /\ i = 3
    /\ ~IsNone(market)
    /\ EntryOf("t1").status = "completed" /\ EntryOf("t2").status = "completed"
    /\ Val(EntryOf("t1").evaluation).score = 100
    /\ Len(EntryOf("t1").company_response[1].approved_actions) = MaxFallbackActions
    /\ Val(EntryOf("t2").evaluation).score = 20
    /\ EntryOf("t2").plan.actions = <<>>

(* C22: the fallback score is approval_rate * 50 + budget_efficiency * 30  *)
(* + 20 clamped to [0,100], with approval_rate = approved / total actions  *)
(* (0 for a plan without actions) and budget_efficiency = cash_used /      *)
(* total_budget (0 when total_budget is 0).  The value is compared as the  *)
(* exact fraction num / den.                                                *)
FormulaNum(e) ==
    LET r == ApprovalRate(e)
        b == BudgetEfficiency(e)
    IN  50 * r[1] * b[2] + 30 * b[1] * r[2] + 20 * r[2] * b[2]

FormulaDen(e) == ApprovalRate(e)[2] * BudgetEfficiency(e)[2]

IsClampedFormula(score, e) ==
    IF FormulaNum(e) >= 100 * FormulaDen(e) THEN score = 100
    ELSE IF FormulaNum(e) <= 0 THEN score = 0
    ELSE score * FormulaDen(e) = FormulaNum(e)

C22_FallbackScoreIsTheFormula ==
    \A t \in TeamIds :
        (/\ HasEntry(t)
         /\ ~IsNone(EntryOf(t).evaluation)
         /\ Val(EntryOf(t).evaluation).source = "fallback")
        => IsClampedFormula(Val(EntryOf(t).evaluation).score, EntryOf(t))

(* C23: the validator's findings are advisory.  process_plan raises only  *)
(* when the team has no TeamState; for every other call that comes back,  *)
(* whatever the validator found (over budget, too few aircraft) and also  *)
(* when its completion call raised, the implementer has decided every     *)
(* action of the plan and an outcome is returned, with the findings and   *)
(* exactly one message about the completion call (its answer or its       *)
(* failure) in the reasoning.                                               *)
Messages(reasoning) == {reasoning[k].msg : k \in DOMAIN reasoning}

AboutCompletion(reasoning) ==
    {k \in DOMAIN reasoning : reasoning[k].msg \in {"ai_assessment", "ai_validation_failed"}}

RouteActions(actions) ==
    {k \in DOMAIN actions : actions[k].action_type \in {"add_route", "increase_frequency"}}

C23_ValidationIsAdvisory ==
    /\ pc = "plan_raised" => IsNone(airlines[batch[1]])
    /\ pc \in {"plan_returned", "hung"} => ~IsNone(airlines[batch[1]])
    /\ pc = "plan_returned" =>
          /\ ~IsNone(obs.impl)
          /\ Len(Impl.response.approved_actions) + Len(Impl.response.rejected_actions)
               = Len(Impl.plan.actions)
          /\ Cardinality(AboutCompletion(Impl.response.reasoning)) = 1
          /\ "over_budget" \in Messages(Impl.response.reasoning)
               <=> SumCost(Impl.plan.actions) > Impl.before.cash
          /\ "insufficient_aircraft" \in Messages(Impl.response.reasoning)
               <=> Cardinality(RouteActions(Impl.plan.actions)) > Impl.before.aircraft_count

C23_Witness ==
    /\ pc = "plan_returned"
    /\ Messages(Impl.response.reasoning)
         = {"over_budget", "insufficient_aircraft", "ai_validation_failed"}
    /\ Impl.response.approved_actions # <<>>
    /\ Impl.response.rejected_actions # <<>>
    /\ Impl.persisted
    /\ airlines[Impl.team_id] # Some(Impl.before)

(* C24: the state process_plan persists differs from the state it read by *)
(* the documented delta of each approved action, taken once and in the    *)
(* order of approval: one aircraft count per purchase_aircraft, each      *)
(* add_route route that was absent appended once, the reputation raised   *)
(* by each marketing_campaign's reputation_impact and capped at 100.      *)
(* Rejected actions leave no trace.                                         *)
ParamOr(action, default) ==
    IF IsNone(action.parameters) THEN default ELSE Val(action.parameters)

RECURSIVE AircraftDelta(_)
AircraftDelta(actions) ==
    IF actions = <<>> THEN 0
    ELSE (IF actions[1].action_type = "purchase_aircraft"
          THEN ParamOr(actions[1], DEFAULT_AIRCRAFT_COUNT) ELSE 0)
         + AircraftDelta(Tail(actions))

RoutesOf(actions) ==
    {Val(actions[k].parameters) :
        k \in {j \in DOMAIN actions : /\ actions[j].action_type = "add_route"
                                      /\ ~IsNone(actions[j].parameters)}}

RECURSIVE ReputationAfter(_, _)
ReputationAfter(actions, reputation) ==
    IF actions = <<>> THEN reputation
    ELSE ReputationAfter(Tail(actions),
             IF actions[1].action_type = "marketing_campaign"
             THEN Min(REPUTATION_CAP,
                      reputation + ParamOr(actions[1], DEFAULT_REPUTATION_IMPACT))
             ELSE reputation)

C24_EachApprovedActionAppliedOnce ==
    (pc = "plan_returned" /\ Impl.persisted) =>
        LET before   == Impl.before
            after    == Val(airlines[Impl.team_id])
            approved == Impl.response.approved_actions
        IN  /\ after.aircraft_count = before.aircraft_count + AircraftDelta(approved)
            /\ Range(after.routes) = Range(before.routes) \cup RoutesOf(approved)
            /\ Len(after.routes) = Cardinality(Range(before.routes) \cup RoutesOf(approved))
            /\ SubSeq(after.routes, 1, Len(before.routes)) = before.routes
            /\ after.reputation = ReputationAfter(approved, before.reputation)
            /\ after.market_share = before.market_share
            /\ after.team_id = before.team_id

C24_Witness ==
    /\ pc = "plan_returned" /\ Impl.persisted
    /\ \E k \in DOMAIN Impl.response.approved_actions :
           Impl.response.approved_actions[k].action_type = "purchase_aircraft"
    /\ \E k \in DOMAIN Impl.response.approved_actions :
           Impl.response.approved_actions[k].action_type = "add_route"
    /\ \E k \in DOMAIN Impl.response.rejected_actions :
           Impl.response.rejected_actions[k].action_type = "marketing_campaign"
    /\ Val(airlines[Impl.team_id]).aircraft_count = Impl.before.aircraft_count + 1
    /\ Len(Val(airlines[Impl.team_id]).routes) = Len(Impl.before.routes) + 1
    /\ Val(airlines[Impl.team_id]).reputation = Impl.before.reputation

WritesOnlyByImplementerAndMarket ==
    \A t \in TeamIds :
        airlines'[t] # airlines[t] =>
            \/ pc = "market"
            \/ /\ pc = "company"
               /\ ~CompanyLoopDone(i, batch)
               /\ t = batch[i]

C26_TeamStateFrame == [][WritesOnlyByImplementerAndMarket]_vars

C26_Witness ==
    /\ pc = "returned"
    /\ obs.market_raised
    /\ batch = <<"t1">>
    /\ Impl.persisted /\ Impl.response.approved_actions # <<>>
    /\ airlines["t1"] # Some(Impl.before)
    /\ airlines["t2"] = Some(InitialAirline("t2"))
    /\ EntryOf("t1").status = "completed"
    /\ ~IsNone(summary)

(* C27: once the market stage of a run is over, either the update of      *)
(* every team of the roster it read and the new MarketState are in the    *)
(* store, or the store holds the roster as the stage read it and no new   *)
(* MarketState; every update is computed from that one roster.             *)
MarketStageOver == pc \in {"evaluation", "returned"} /\ obs.market_calls = 1

FromSnapshot ==
    /\ Len(mk.updated_airlines) <= Len(mk.all_airlines)
    /\ \A k \in DOMAIN mk.updated_airlines :
          /\ mk.updated_airlines[k].team_id = mk.all_airlines[k].team_id
          /\ mk.updated_airlines[k].cash = mk.all_airlines[k].cash
          /\ mk.updated_airlines[k].aircraft_count = mk.all_airlines[k].aircraft_count
          /\ mk.updated_airlines[k].routes = mk.all_airlines[k].routes

WholeBatchCommitted ==
    /\ Len(mk.updated_airlines) = Len(mk.all_airlines)
    /\ \A k \in DOMAIN mk.updated_airlines :
          airlines[mk.updated_airlines[k].team_id] = Some(mk.updated_airlines[k])
    /\ ~IsNone(market_results)
    /\ market = Some(Val(market_results).market_state)

NothingCommitted ==
    /\ \A k \in DOMAIN mk.all_airlines :
          airlines[mk.all_airlines[k].team_id] = Some(mk.all_airlines[k])
    /\ IsNone(market_results) \/ market # Some(Val(market_results).market_state)

C27_MarketStageCommitsAsOneBatch ==
    MarketStageOver => FromSnapshot /\ (WholeBatchCommitted \/ NothingCommitted)

(* C28: with no team in the roster the competition analysis is intensity  *)
(* 0.1, concentration 0.0, total capacity 0 and average reputation 50.0,  *)
(* and the market stage goes through to its return: it writes a           *)
(* MarketState with competition_level 0.1 and returns an empty list of    *)
(* airlines.                                                                *)
EmptyRosterAnalysis(a) ==
    /\ a.competition_intensity = 10
    /\ a.market_concentration = 0
    /\ a.total_capacity = 0
    /\ a.average_reputation = 5000

C28_EmptyRosterDefaults ==
    (obs.market_calls = 1 /\ mk.all_airlines = <<>>) =>
        /\ EmptyRosterAnalysis(mk.market_analysis)
        /\ (pc = "evaluation" /\ ~obs.market_raised) =>
              /\ ~IsNone(market_results)
              /\ Val(market_results).airlines = <<>>
              /\ EmptyRosterAnalysis(Val(market_results).market_analysis)
              /\ Val(market_results).market_state.competition_level = 10
              /\ Val(market_results).market_state.total_passengers >= 800000

C28_Witness ==
    /\ pc = "evaluation" /\ ~obs.market_raised /\ faults = 0
    /\ \A t \in TeamIds : IsNone(airlines[t])
    /\ mk.all_airlines = <<>>
    /\ ~IsNone(market_results)
    /\ market = Some(Val(market_results).market_state)

(* C29: when the teams of a non-empty roster have no aircraft at all, the *)
(* market stage gives every team the market share 0.                       *)
C29_ZeroCapacityZeroShare ==
    (obs.market_calls = 1 /\ mk.all_airlines # <<>> /\ SumAircraft(mk.all_airlines) = 0) =>
        \A k \in DOMAIN mk.updated_airlines : mk.updated_airlines[k].market_share = 0

(* C30: for a roster of N >= 1 teams that all have the market share 1/N,  *)
(* the market concentration of _analyze_market_competition is 1/N.        *)
EqualShares(sts) ==
    /\ sts # <<>>
    /\ \A k \in DOMAIN sts : sts[k].market_share * Len(sts) = ShareOne

C30_EqualSharesConcentration ==
    (pc = "analysed" /\ EqualShares(mk.all_airlines)) =>
        mk.market_analysis.market_concentration * Len(mk.all_airlines) = ShareOne

C30_Witness ==
    /\ pc = "analysed"
    /\ Len(mk.all_airlines) = 5
    /\ EqualShares(mk.all_airlines)
    /\ mk.market_analysis.market_concentration = ShareOne \div 5

(* C31: the reputation delta the market stage takes from the completion    *)
(* call is within [-5, 5] and is 0 when the call raises or the text holds  *)
(* no reputation_change integer; so a team read with a reputation in       *)
(* [0, 100] is written back with a reputation at most 5 away, and with the *)
(* same reputation when the service fails.                                  *)
FailedResponses == {r \in ReputationResponses : r.kind \in {"raise", "nomatch"}}

InPercentRange(airline) == airline.reputation >= 0 /\ airline.reputation <= 100

C31_MarketReputationDeltaBounded ==
    /\ \A resp \in ReputationResponses :
          /\ AiPerformanceEvaluation(resp) >= -5 /\ AiPerformanceEvaluation(resp) <= 5
          /\ resp \in FailedResponses => AiPerformanceEvaluation(resp) = 0
    /\ \A k \in DOMAIN mk.all_airlines :
          LET airline == mk.all_airlines[k]
          IN  InPercentRange(airline) =>
                /\ \A resp \in FailedResponses, jitter \in ReputationJitters :
                      CalculateAirlinePerformance(airline, mk.market_analysis,
                                                  jitter, resp).reputation
                        = airline.reputation
                /\ k \in DOMAIN mk.updated_airlines =>
                      LET updated_airline == mk.updated_airlines[k]
                          stored == Val(airlines[airline.team_id])
                      IN  /\ updated_airline.reputation - airline.reputation <= 5
                          /\ airline.reputation - updated_airline.reputation <= 5
                          /\ stored.reputation
                               \in {airline.reputation, updated_airline.reputation}

(* t1 was read with reputation 50 and written back with 55 *)
C31_Witness ==
    /\ pc = "evaluation"
    /\ ~IsNone(market_results)
    /\ \E k \in DOMAIN mk.updated_airlines :
          /\ mk.all_airlines[k].team_id = "t1"
          /\ mk.all_airlines[k].reputation = 50
          /\ mk.updated_airlines[k].reputation = 55
          /\ Val(airlines["t1"]).reputation = 55

(* C32: when the market stage has succeeded, the MarketState it returns    *)
(* has total_passengers within [800000, 1500000], and so has the stored   *)
(* market_state document once the store has taken the write, whatever the  *)
(* previous demand, the roster and the fluctuation drawn.                   *)
MarketStageSucceeded == pc = "evaluation" /\ ~IsNone(market_results)

InDemandRange(market_state) ==
    market_state.total_passengers >= 800000 /\ market_state.total_passengers <= 1500000

LabelOf(events) ==
    CASE SumHits(events, TRUE) > SumHits(events, FALSE) -> "growing"
      [] SumHits(events, FALSE) > SumHits(events, TRUE) -> "declining"
      [] OTHER -> "stable"

C33_ConditionsFromThisRunsEvents ==
    MarketStageSucceeded =>
        LET market_state == Val(market_results).market_state
        IN  /\ \E draw \in AllEventDraws :
                  market_state.events = GenerateMarketEvents(draw[1], draw[2], draw[3])
            /\ market_state.economic_conditions = LabelOf(market_state.events)
            /\ market_state.events = <<>> => market_state.economic_conditions = "stable"
            /\ faults = 0 => Val(market).economic_conditions = LabelOf(Val(market).events)

(* the previous market_state held a recession event and this run drew the  *)
(* tourism boom only: the stored label is "growing"                         *)
C33_Witness ==
    /\ MarketStageSucceeded
    /\ faults = 0
    /\ mk.current_market.events = <<<<"economic", 3>>>>
    /\ Val(market).events = <<<<"economic", 2>>>>
    /\ Val(market).economic_conditions = "growing"

(* C34: a step of the market stage leaves the cash, the aircraft count and *)
(* the routes of every TeamState as they are and creates or removes no     *)
(* record; so once the market stage is over the record of the team whose   *)
(* plan was implemented last still holds the cash, aircraft count and      *)
(* routes that implementer stored.                                          *)
ImplementerFields(st) ==
    [cash |-> st.cash, aircraft_count |-> st.aircraft_count, routes |-> st.routes]

MarketKeepsImplementerFields ==
    pc = "market" =>
        \A t \in TeamIds :
            /\ IsNone(airlines'[t]) <=> IsNone(airlines[t])
            /\ ~IsNone(airlines[t]) =>
                  ImplementerFields(Val(airlines'[t])) = ImplementerFields(Val(airlines[t]))

ImplementerFieldsStillStored ==
    (MarketStageOver /\ ~IsNone(obs.impl) /\ Impl.persisted) =>
        ImplementerFields(Val(airlines[Impl.team_id]))
          = ImplementerFields(UpdatedAirline(Impl.plan, Impl.before, Impl.response))

C34_MarketStageFrame ==
    /\ [][MarketKeepsImplementerFields]_vars
    /\ []ImplementerFieldsStillStored

(* the implementer stored a purchase for the team and the market stage     *)
(* then gave the team a market share: the record holds both                 *)
C34_Witness ==
    /\ pc = "evaluation"
    /\ ~IsNone(market_results)
    /\ ~IsNone(obs.impl) /\ Impl.persisted
    /\ Impl.response.cash_used > 0
    /\ LET stored == Val(airlines[Impl.team_id])
       IN  /\ stored.cash = Impl.before.cash - Impl.response.cash_used
           /\ stored.aircraft_count = Impl.before.aircraft_count + 1
           /\ stored.market_share # Impl.before.market_share
           /\ stored.market_share > 0

(* C35: when the company loop of a run is over and the store rejected no   *)
(* write, every team whose entry holds a company_response has lost exactly *)
(* the cash_used of that entry since the run began.                         *)
CompanyStageOver == pc = "company" /\ CompanyLoopDone(i, batch)

CashDecrease(t) == MAX_SEMESTER_BUDGET - Val(airlines[t]).cash

C35_CashDecreaseIsReportedCashUsed ==
    (CompanyStageOver /\ faults = 0) =>
        \A t \in TeamIds :
            (HasEntry(t) /\ ~IsNone(EntryOf(t).company_response)) =>
                CashDecrease(t) = Val(EntryOf(t).company_response).cash_used

(* C36: the approved and the rejected actions of a response are together   *)
(* a rearrangement of the actions of the plan: each submitted action is in *)
(* exactly one of the two lists, so their lengths add up to the number of  *)
(* actions of the plan.                                                     *)
IsRearrangement(listed, actions) ==
    /\ Len(listed) = Len(actions)
    /\ \E p \in Perms(Len(actions)) :
          \A k \in DOMAIN actions : listed[k] = actions[p[k]]

C36_ImplementerPartitionsThePlan ==
    ~IsNone(obs.impl) =>
        /\ Len(Impl.response.approved_actions) + Len(Impl.response.rejected_actions)
             = Len(Impl.plan.actions)
        /\ IsRearrangement(Impl.response.approved_actions \o Impl.response.rejected_actions,
                           Impl.plan.actions)

(* a plan of three actions, one of them submitted twice, with one approved *)
(* and two rejected, one for the budget and one as infeasible               *)
C36_Witness ==
    /\ pc = "plan_returned"
    /\ ~IsNone(obs.impl)
    /\ Len(Impl.plan.actions) = 3
    /\ Impl.plan.actions[1] = Impl.plan.actions[3]
    /\ Len(Impl.response.approved_actions) = 1
    /\ Len(Impl.response.rejected_actions) = 2
    /\ \E a \in Range(Impl.response.rejected_actions) :
          ~IsActionFeasible(a, Impl.before)
    /\ \E a \in Range(Impl.response.rejected_actions) :
          IsActionFeasible(a, Impl.before)

(* C37: an entry with status company_failed is left as it is by every step *)
(* of the market and the evaluation stage and by the summary: it gets no   *)
(* market result and no evaluation; and every team the evaluator is called *)
(* for has an entry with a company_response.                                *)
FailedEntryUntouched ==
    pc \in {"market", "evaluation"} =>
        \A t \in TeamIds :
            (HasEntry(t) /\ EntryOf(t).status = "company_failed") =>
                results'[t] = results[t]

FailedEntryAsTheCompanyLoopLeftIt ==
    \A t \in TeamIds :
        (HasEntry(t) /\ EntryOf(t).status = "company_failed") =>
            /\ EntryOf(t) = Entry(EntryOf(t).plan, None, "company_failed", EntryOf(t).error)
            /\ ~IsNone(EntryOf(t).error)
            /\ \A k \in DOMAIN obs.eval_calls : obs.eval_calls[k].team_id # t

EvaluatorGetsCompanyResponses ==
    \A k \in DOMAIN obs.eval_calls :
        /\ HasEntry(obs.eval_calls[k].team_id)
        /\ ~IsNone(EntryOf(obs.eval_calls[k].team_id).company_response)

C37_FailedEntriesSkipped ==
    /\ [][FailedEntryUntouched]_vars
    /\ [](FailedEntryAsTheCompanyLoopLeftIt /\ EvaluatorGetsCompanyResponses)

(* a run of two plans has returned: the unregistered team's entry is       *)
(* company_failed, the other team went through the market stage and the    *)
(* evaluator                                                                *)
C37_Witness ==
    /\ pc = "returned"
    /\ ~IsNone(market_results)
    /\ HasEntry("t0") /\ EntryOf("t0").status = "company_failed"
    /\ ~EntryOf("t0").has_market_results
    /\ IsNone(EntryOf("t0").evaluation)
    /\ HasEntry("t1") /\ EntryOf("t1").status = "completed"
    /\ EntryOf("t1").has_market_results
    /\ Len(obs.eval_calls) = 1

(* C38: no step of a run on an empty list of plans changes a TeamState or  *)
(* the MarketState of the store, also when the store rejects nothing.      *)
C38_EmptyRunLeavesStoreUnchanged ==
    [][(batch = <<>> /\ faults' = 0) => UNCHANGED <<airlines, market>>]_vars

(* C39: when two runs overlap, what the implementer of one run has stored  *)
(* for a team (the cash after the deduction, the aircraft count and the    *)
(* routes after the approved actions) stays in the store: the market stage *)
(* of the other run never puts back the values it read before.  The store  *)
(* rejects no write.                                                        *)
C39_NoLostUpdate ==
    (~IsNone(obs.impl) /\ Impl.persisted /\ faults = 0) =>
        ImplementerFields(Val(airlines[Impl.team_id]))
          = ImplementerFields(UpdatedAirline(Impl.plan, Impl.before, Impl.response))

====
